---- MODULE Spec2Model ----
(***************************************************************************)
(* Event-sourced bank account runtime of th1enq/es-demo.                   *)
(*                                                                         *)
(* One aggregate id is modelled: every SQL statement of the event store    *)
(* and every filter of the read-model repository is keyed by aggregate_id, *)
(* so aggregates do not interact.                                          *)
(*                                                                         *)
(* Money is an amount in minor units with a currency code.  The read-model *)
(* balance is a float64 in major units; it is kept here in hundredths of a *)
(* major unit so that it stays an integer.                                 *)
(***************************************************************************)
EXTENDS Integers, Sequences, FiniteSets, TLC

(* ------------------------------ bounds --------------------------------- *)
NumProcs == 2        \* concurrent command handlers
MaxAmount == 2       \* largest amount a command carries
MaxMessages == 3     \* batches ever offered to the bus
MaxFrequency == 2    \* largest configured SNAPSHOT_FREQUENCY
NumWorkers == 2      \* consumer workers (PROJECTION_MONGO_POOL_SIZE)
MaxReplayEvents == 3 \* rows of microservices.events a replay reads

Procs == 1..NumProcs
NoProc == 0
Workers == 1..NumWorkers
NoMessage == 0
CmdAmounts == (0 - 1)..MaxAmount

(* ------------------------- errors (internal/errors) -------------------- *)
NoErr == "none"
ErrInvalidBalanceAmount == "invalid balance amount"
ErrNotEnoughBalance == "balance has not enough balance"
ErrBankAccountAlreadyExists == "bank account with given id already exists"
ErrBankAccountNotFound == "bank account not found"
ErrCurrencyMismatch == "currencies don't match"
ErrUnknownEventType == "unknown event type"
ErrUniqueViolation == "duplicate key value violates unique constraint"
ErrOnConflictTarget == "no unique constraint matching the ON CONFLICT specification"
ErrPublish == "kafka write failed"
ErrCommit == "commit failed"
ErrNoDocuments == "mongo: no documents in result"
ErrDuplicateKey == "E11000 duplicate key error"
ErrInvalidEventVersion == "invalid event version"

(* ------------------------------ events --------------------------------- *)
BankAccountCreatedEventTypeV1 == "BANK_ACCOUNT_CREATED_V1"
BalancedDepositedEventTypeV1 == "BALANCE_DEPOSITED_V1"
BalanceWithdrawedEventTypeV1 == "BALANCE_WITHDRAWED_V1"

USD == "USD"
VND == "VND"

\* the one e-mail, name and bcrypt hash the create command carries
TheEmail == "e"
TheFirstName == "f"
TheLastName == "l"
TheHash == "h"

BankAccountCreatedEventV1(amount) ==
    [type |-> BankAccountCreatedEventTypeV1, amount |-> amount, currency |-> VND,
     email |-> TheEmail, firstName |-> TheFirstName, lastName |-> TheLastName,
     passwordHash |-> TheHash]

BalanceDepositedEventV1(amount) ==
    [type |-> BalancedDepositedEventTypeV1, amount |-> amount, currency |-> "",
     email |-> "", firstName |-> "", lastName |-> "", passwordHash |-> ""]

BalanceWithdrawedEventV1(amount) ==
    [type |-> BalanceWithdrawedEventTypeV1, amount |-> amount, currency |-> "",
     email |-> "", firstName |-> "", lastName |-> "", passwordHash |-> ""]

(* --------------------------- the aggregate ----------------------------- *)
\* NewBankAccountAggregate: version 0, balance money.New(0, "USD")
NewBankAccountAggregate ==
    [version |-> 0, amount |-> 0, currency |-> USD,
     email |-> "", firstName |-> "", lastName |-> "", passwordHash |-> "",
     changes |-> <<>>]

\* variant: the sum takes the currency of the amount added
DepositAdoptsCurrency(a, amount) ==
    [err |-> NoErr, agg |-> [a EXCEPT !.amount = a.amount + amount,
                                      !.currency = USD]]

\* BankAccount.Deposit: Balance.Add(money.New(amount, money.USD)); go-money
\* refuses to add two amounts of different currencies
Deposit(a, amount) ==
    IF a.currency # USD
    THEN [err |-> ErrCurrencyMismatch, agg |-> a]
    ELSE [err |-> NoErr, agg |-> [a EXCEPT !.amount = a.amount + amount]]

\* BankAccount.Withdraw: Balance.Subtract(money.New(amount, money.USD))
Withdraw(a, amount) ==
    IF a.currency # USD
    THEN [err |-> ErrCurrencyMismatch, agg |-> a]
    ELSE [err |-> NoErr, agg |-> [a EXCEPT !.amount = a.amount - amount]]

\* BankAccountAggregate.When
When(a, e) ==
    CASE e.type = BankAccountCreatedEventTypeV1 ->
           [err |-> NoErr,
            agg |-> [a EXCEPT !.email = e.email, !.amount = e.amount,
                              !.currency = e.currency,
                              !.firstName = e.firstName, !.lastName = e.lastName,
                              !.passwordHash = e.passwordHash]]
      [] e.type = BalancedDepositedEventTypeV1 -> Deposit(a, e.amount)
      [] e.type = BalanceWithdrawedEventTypeV1 -> Withdraw(a, e.amount)
      [] OTHER -> [err |-> ErrUnknownEventType, agg |-> a]

\* AggregateBase.Apply: when(event), then version++ and the event joins changes
Apply(a, e) ==
    LET r == When(a, e) IN
    IF r.err # NoErr THEN [err |-> r.err, agg |-> a]
    ELSE [err |-> NoErr,
          agg |-> [r.agg EXCEPT !.version = a.version + 1,
                                !.changes = Append(a.changes, e)]]

\* AggregateBase.RaiseEvent: when(event), then version++ (rehydration)
RaiseEvent(a, e) ==
    LET r == When(a, e) IN
    IF r.err # NoErr THEN [err |-> r.err, agg |-> a]
    ELSE [err |-> NoErr, agg |-> [r.agg EXCEPT !.version = a.version + 1]]

\* BankAccountAggregate.CreateBankAccount
CreateBankAccount(a, amount) ==
    IF amount < 0 THEN [err |-> ErrInvalidBalanceAmount, agg |-> a]
    ELSE Apply(a, BankAccountCreatedEventV1(amount))

\* variant: an amount of zero passes the check
DepositBalanceZeroAccepted(a, amount) ==
    IF amount < 0 THEN [err |-> ErrInvalidBalanceAmount, agg |-> a]
    ELSE Apply(a, BalanceDepositedEventV1(amount))

\* BankAccountAggregate.DepositBalance
DepositBalance(a, amount) ==
    IF amount <= 0 THEN [err |-> ErrInvalidBalanceAmount, agg |-> a]
    ELSE Apply(a, BalanceDepositedEventV1(amount))

\* variant: the balance check is missing
WithdrawBalanceUnchecked(a, amount) ==
    IF amount <= 0 THEN [err |-> ErrInvalidBalanceAmount, agg |-> a]
    ELSE Apply(a, BalanceWithdrawedEventV1(amount))

\* variant: the balance check compares against the wrong bound
WithdrawBalanceOffByOne(a, amount) ==
    IF amount <= 0 THEN [err |-> ErrInvalidBalanceAmount, agg |-> a]
    ELSE IF a.amount - amount < 0 - 1 THEN [err |-> ErrNotEnoughBalance, agg |-> a]
    ELSE Apply(a, BalanceWithdrawedEventV1(amount))

\* BankAccountAggregate.WithdrawBalance: the check subtracts in VND whatever
\* the currency of the balance is
WithdrawBalance(a, amount) ==
    IF amount <= 0 THEN [err |-> ErrInvalidBalanceAmount, agg |-> a]
    ELSE IF a.amount - amount < 0 THEN [err |-> ErrNotEnoughBalance, agg |-> a]
    ELSE Apply(a, BalanceWithdrawedEventV1(amount))

(* ------------------- serialization (events, snapshots) ----------------- *)
\* es.NewEvent: the version a stored event carries is the version the
\* aggregate has after applying that change
NewEventVersion(a, i) == a.version - Len(a.changes) + i

\* eventSerializer.SerializeEvent: the stored row is the JSON of the event
\* payload under its event type, with the version es.NewEvent gives it
SerializeEvent(a, i) ==
    LET e == a.changes[i] IN
    [version |-> NewEventVersion(a, i),
     type |-> e.type, amount |-> e.amount, currency |-> e.currency,
     email |-> e.email, firstName |-> e.firstName, lastName |-> e.lastName,
     passwordHash |-> e.passwordHash]

\* eventSerializer.DeserializeEvent: the typed payload of a stored row
DeserializeEvent(row) ==
    IF row.type \in {BankAccountCreatedEventTypeV1, BalancedDepositedEventTypeV1,
                     BalanceWithdrawedEventTypeV1}
    THEN [err |-> NoErr,
          event |-> [type |-> row.type, amount |-> row.amount,
                     currency |-> row.currency, email |-> row.email,
                     firstName |-> row.firstName, lastName |-> row.lastName,
                     passwordHash |-> row.passwordHash]]
    ELSE [err |-> ErrUnknownEventType, event |-> row]

\* serializer.Marshal(aggregate): the JSON of the aggregate; PasswordHash is
\* tagged json:"-" and is not part of it
MarshalAggregate(a) ==
    [version |-> a.version, amount |-> a.amount, currency |-> a.currency,
     email |-> a.email, firstName |-> a.firstName, lastName |-> a.lastName]

\* serializer.Unmarshal(snapshot.State, aggregate): the JSON fields overwrite
\* the aggregate; what the JSON does not carry keeps the aggregate's value
UnmarshalAggregate(state, a) ==
    [a EXCEPT !.version = state.version, !.amount = state.amount,
              !.currency = state.currency, !.email = state.email,
              !.firstName = state.firstName, !.lastName = state.lastName]

\* es.NewSnapshotFromAggregate
NewSnapshotFromAggregate(a) ==
    [version |-> a.version, state |-> MarshalAggregate(a)]

(* --------------------------- event store reads ------------------------- *)
Versions(rows) == {r.version : r \in rows}

\* ORDER BY version ASC
RECURSIVE OrderByVersion(_)
OrderByVersion(rows) ==
    IF rows = {} THEN <<>>
    ELSE LET m == CHOOSE r \in rows : \A o \in rows : r.version <= o.version
         IN <<m>> \o OrderByVersion(rows \ {m})

\* the row loop of loadEvents / loadAggregateEventsByVersion: deserialize and
\* raise each row in order, stop at the first error
RECURSIVE RaiseRows(_, _)
RaiseRows(a, rowSeq) ==
    IF rowSeq = <<>> THEN [err |-> NoErr, agg |-> a]
    ELSE LET d == DeserializeEvent(Head(rowSeq)) IN
         IF d.err # NoErr THEN [err |-> d.err, agg |-> a]
         ELSE LET r == RaiseEvent(a, d.event) IN
              IF r.err # NoErr THEN [err |-> r.err, agg |-> a]
              ELSE RaiseRows(r.agg, Tail(rowSeq))

\* getEventsQuery through loadEvents
loadEvents(rows, a) == RaiseRows(a, OrderByVersion(rows))

\* getEventsByVersionQuery (version > aggregate.GetVersion())
loadAggregateEventsByVersion(rows, a) ==
    RaiseRows(a, OrderByVersion({r \in rows : r.version > a.version}))

\* getEventsByVersionRangeQuery (version BETWEEN from AND to)
loadAggregateEventsByVersionRange(rows, a, from, to) ==
    RaiseRows(a, OrderByVersion({r \in rows : r.version >= from /\ r.version <= to}))

\* all events up to the target version
loadEventsIntoVersion(rows, a, version) ==
    RaiseRows(a, OrderByVersion({r \in rows : r.version <= version}))

\* getSnapshotQuery: ORDER BY version DESC LIMIT 1
GetSnapshot(snaps) ==
    IF snaps = {} THEN {}
    ELSE {CHOOSE s \in snaps : \A o \in snaps : o.version <= s.version}

\* getSnapshotByVersionQuery
GetSnapshotByVersion(snaps, version) == {s \in snaps : s.version = version}

\* variant: the aggregate is never found
ExistsNever(rows) == FALSE

\* getEventQuery
Exists(rows) == rows # {}

\* pgEventStore.Load
Load(rows, snaps, a) ==
    LET snapshot == GetSnapshot(snaps) IN
    IF snapshot # {}
    THEN LET s == CHOOSE x \in snapshot : TRUE IN
         loadAggregateEventsByVersion(rows, UnmarshalAggregate(s.state, a))
    ELSE loadEvents(rows, a)

\* variant: the latest snapshot is taken instead of the one at snapshotVersion
LoadByVersionLatestSnapshot(rows, snaps, a, version, frequency) ==
    LET snapshot == GetSnapshot(snaps)
    IN IF snapshot # {}
       THEN LET s == CHOOSE x \in snapshot : TRUE
                u == UnmarshalAggregate(s.state, a)
            IN IF s.version < version
               THEN loadAggregateEventsByVersionRange(rows, u, s.version + 1, version)
               ELSE [err |-> NoErr, agg |-> u]
       ELSE loadEventsIntoVersion(rows, a, version)

\* pgEventStore.LoadByVersion
LoadByVersion(rows, snaps, a, version, frequency) ==
    LET snapshotVersion == (version \div frequency) * frequency
        snapshot == GetSnapshotByVersion(snaps, snapshotVersion)
    IN IF snapshot # {}
       THEN LET s == CHOOSE x \in snapshot : TRUE
                u == UnmarshalAggregate(s.state, a)
            IN IF s.version < version
               THEN loadAggregateEventsByVersionRange(rows, u, s.version + 1, version)
               ELSE [err |-> NoErr, agg |-> u]
       ELSE loadEventsIntoVersion(rows, a, version)

(* --------------------------- GetEventsHistory -------------------------- *)
TheAggregateID == "a1"
OtherAggregateID == "a2"
BankAccountAggregateType == "BankAccount"

\* a row of microservices.events as saveEventQuery writes it: the id and the
\* type of the aggregate, the event type, the version and the payload
StoredEvent(id, row) ==
    [aggregateID |-> id, aggregateType |-> BankAccountAggregateType,
     eventType |-> row.type, version |-> row.version, data |-> row]

\* microservices.events: the rows of the aggregate and the one row of another
\* aggregate, which a Deposit on a new id has left
EventsTable(rows) ==
    {StoredEvent(TheAggregateID, r) : r \in rows}
    \cup {StoredEvent(OtherAggregateID,
                      SerializeEvent(DepositBalance(NewBankAccountAggregate, 1).agg, 1))}

\* variant: getAllEventsQuery, which has no WHERE aggregate_id = $1
LoadEventsOfAll(table, id) == OrderByVersion(table)

\* pgEventStore.LoadEvents: getEventsQuery, WHERE aggregate_id = $1 ORDER BY
\* version ASC
LoadEvents(table, id) == OrderByVersion({e \in table : e.aggregateID = id})

\* dto.EventResponse built from one es.Event
EventResponse(event) ==
    [aggregateID |-> event.aggregateID, eventType |-> event.eventType,
     aggregateType |-> event.aggregateType, version |-> event.version,
     data |-> event.data]

\* GetEventsHistoryQueryHandler.Handle
GetEventsHistory(table, id) ==
    LET loaded == LoadEvents(table, id) IN
    [aggregateID |-> id,
     totalEvents |-> Len(loaded),
     events |-> [i \in 1..Len(loaded) |-> EventResponse(loaded[i])]]

(* ----------------------------- read model ------------------------------ *)
\* money.AsMajorUnits in hundredths of a major unit: VND has no fraction
\* digits, USD has two
AsMajorUnits(amount, currency) ==
    IF currency = VND THEN amount * 100 ELSE amount

\* mappers.BankAccountToMongoProjection (PasswordHash is not mapped)
BankAccountToMongoProjection(a) ==
    [version |-> a.version, balance |-> AsMajorUnits(a.amount, a.currency),
     currency |-> a.currency, email |-> a.email, firstName |-> a.firstName,
     lastName |-> a.lastName, passwordHash |-> ""]

\* variant: the loaded version is not compared with the requested one
GetByVersionAnyLoaded(rows, snaps, version, frequency) ==
    LET l == LoadByVersion(rows, snaps, NewBankAccountAggregate, version, frequency) IN
    IF l.err # NoErr THEN [err |-> l.err, projection |-> {}]
    ELSE IF l.agg.version = 0 THEN [err |-> ErrBankAccountNotFound, projection |-> {}]
    ELSE [err |-> NoErr, projection |-> {BankAccountToMongoProjection(l.agg)}]

\* getBankAccountByVersionQuery.Handle
GetByVersion(rows, snaps, version, frequency) ==
    LET l == LoadByVersion(rows, snaps, NewBankAccountAggregate, version, frequency) IN
    IF l.err # NoErr THEN [err |-> l.err, projection |-> {}]
    ELSE IF l.agg.version = 0 THEN [err |-> ErrBankAccountNotFound, projection |-> {}]
    ELSE IF l.agg.version < version THEN [err |-> ErrBankAccountNotFound, projection |-> {}]
    ELSE [err |-> NoErr, projection |-> {BankAccountToMongoProjection(l.agg)}]

(* ------------------- bank_accounts (mongo repository) ------------------ *)
\* a float64 holding the integer n, in hundredths
Float64(n) == n * 100

\* {"$set": doc} with the bson tags of BankAccountMongoProjection: a zero
\* version and empty strings are omitempty and keep the stored value; Balance
\* is a struct without a zero test and is always written
SetDocument(old, doc) ==
    [version |-> IF doc.version = 0 THEN old.version ELSE doc.version,
     balance |-> doc.balance,
     currency |-> doc.currency,
     email |-> IF doc.email = "" THEN old.email ELSE doc.email,
     firstName |-> IF doc.firstName = "" THEN old.firstName ELSE doc.firstName,
     lastName |-> IF doc.lastName = "" THEN old.lastName ELSE doc.lastName,
     passwordHash |-> IF doc.passwordHash = "" THEN old.passwordHash
                      ELSE doc.passwordHash]

\* bankAccountMongoRepository.Insert: InsertOne under the unique index on
\* aggregate_id
Insert(coll, doc) ==
    IF coll # {} THEN [err |-> ErrDuplicateKey, coll |-> coll]
    ELSE [err |-> NoErr, coll |-> {doc}]

\* FindOneAndUpdate(filter, {"$set": doc}) with SetUpsert(upsert)
FindOneAndUpdate(coll, doc, upsert) ==
    IF coll = {}
    THEN IF upsert THEN [err |-> NoErr, coll |-> {doc}]
         ELSE [err |-> ErrNoDocuments, coll |-> coll]
    ELSE [err |-> NoErr, coll |-> {SetDocument(old, doc) : old \in coll}]

\* bankAccountMongoRepository.Upsert
Upsert(coll, doc) == FindOneAndUpdate(coll, doc, TRUE)

\* bankAccountMongoRepository.GetByAggregateID: FindOne by aggregate_id
GetByAggregateID(coll) ==
    IF coll = {} THEN [err |-> ErrNoDocuments, found |-> {}]
    ELSE [err |-> NoErr, found |-> coll]

\* bankAccountMongoRepository.DeleteByAggregateID
DeleteByAggregateID(coll) == {}

\* UpdateConcurrently up to the version check: FindOne, then the comparison of
\* the stored version with expectedVersion
FindExpectedVersion(coll, expectedVersion) ==
    IF coll = {} THEN [err |-> ErrNoDocuments, found |-> {}]
    ELSE IF \E f \in coll : f.version # expectedVersion
    THEN [err |-> ErrInvalidEventVersion, found |-> {}]
    ELSE [err |-> NoErr, found |-> coll]

\* the callback of onBankAccountBalanceDeposited / onBankAccountBalanceWithdrawed
UpdateProjectionCallback(found, esEvent) ==
    [found EXCEPT
       !.balance = IF esEvent.type = BalancedDepositedEventTypeV1
                   THEN found.balance + Float64(esEvent.amount)
                   ELSE found.balance - Float64(esEvent.amount),
       !.version = esEvent.version]

\* bankAccountMongoProjection.onBankAccountCreated
onBankAccountCreated(coll, esEvent) ==
    IF esEvent.version # 1
    THEN [err |-> ErrInvalidEventVersion, coll |-> coll]
    ELSE Insert(coll,
           [version |-> esEvent.version,
            balance |-> AsMajorUnits(esEvent.amount, esEvent.currency),
            currency |-> esEvent.currency, email |-> esEvent.email,
            firstName |-> esEvent.firstName, lastName |-> esEvent.lastName,
            passwordHash |-> esEvent.passwordHash])

(* ---------------------- getBankAccountByIDQuery ------------------------ *)
ErrUpsert == "MongoDB upsert failed"

\* loadFromAggregateStore: the projection of the loaded aggregate; the
\* collection coll is handed through as it is
loadFromAggregateStore(rows, snaps, coll) ==
    LET l == Load(rows, snaps, NewBankAccountAggregate) IN
    IF l.err # NoErr THEN [err |-> l.err, projection |-> {}, coll |-> coll]
    ELSE IF l.agg.version = 0
    THEN [err |-> ErrBankAccountNotFound, projection |-> {}, coll |-> coll]
    ELSE [err |-> NoErr, projection |-> {BankAccountToMongoProjection(l.agg)},
          coll |-> coll]

\* variant: the error of the upsert is returned to the caller
getFromReadModelStrict(rows, snaps, coll, upsertErr) ==
    LET g == GetByAggregateID(coll) IN
    IF g.err = NoErr THEN [err |-> NoErr, projection |-> g.found, coll |-> coll]
    ELSE LET l == loadFromAggregateStore(rows, snaps, coll) IN
         IF l.err # NoErr THEN l
         ELSE IF upsertErr # NoErr
         THEN [err |-> upsertErr, projection |-> {}, coll |-> coll]
         ELSE LET doc == CHOOSE d \in l.projection : TRUE IN
              [err |-> NoErr, projection |-> l.projection,
               coll |-> Upsert(coll, doc).coll]

\* Handle with FromEventStore false: the document of the read model, and when
\* there is none (ErrNoDocuments) the projection of the loaded aggregate after
\* an Upsert whose error upsertErr is only logged
getFromReadModel(rows, snaps, coll, upsertErr) ==
    LET g == GetByAggregateID(coll) IN
    IF g.err = NoErr THEN [err |-> NoErr, projection |-> g.found, coll |-> coll]
    ELSE LET l == loadFromAggregateStore(rows, snaps, coll) IN
         IF l.err # NoErr THEN l
         ELSE LET doc == CHOOSE d \in l.projection : TRUE IN
              [err |-> NoErr, projection |-> l.projection,
               coll |-> IF upsertErr # NoErr THEN coll ELSE Upsert(coll, doc).coll]

\* variant: FromEventStore is not looked at
HandleReadModelFirst(rows, snaps, coll, fromEventStore, upsertErr) ==
    getFromReadModel(rows, snaps, coll, upsertErr)

\* getBankAccountByIDQuery.Handle
Handle(rows, snaps, coll, fromEventStore, upsertErr) ==
    IF fromEventStore THEN loadFromAggregateStore(rows, snaps, coll)
    ELSE getFromReadModel(rows, snaps, coll, upsertErr)

(* ----------------- replay to Elasticsearch (ReplayService) -------------- *)
ErrJsonData == "event.GetJsonData"
BankAccountClosedEventTypeV1 == "BANK_ACCOUNT_CLOSED_V1"
NotJSON == "not json"

\* the aggregate ids of microservices.events
AggregateIDs == {TheAggregateID, OtherAggregateID}

\* what a stored event of the replayed table is: one of the three events of
\* the domain, an event of a type the serializer does not know, or a known
\* type whose data column does not decode
EventKinds ==
    {BankAccountCreatedEventTypeV1, BalancedDepositedEventTypeV1,
     BalanceWithdrawedEventTypeV1, BankAccountClosedEventTypeV1, NotJSON}

\* the stored event of that kind, with the amount MaxAmount when it creates
\* the account and 1 otherwise
StoredEventOfKind(id, version, kind) ==
    LET payload == IF kind = BankAccountCreatedEventTypeV1
                   THEN BankAccountCreatedEventV1(MaxAmount)
                   ELSE BalanceDepositedEventV1(1)
        row == [version |-> version, type |-> kind, amount |-> payload.amount,
                currency |-> payload.currency, email |-> payload.email,
                firstName |-> payload.firstName, lastName |-> payload.lastName,
                passwordHash |-> payload.passwordHash]
    IN IF kind = NotJSON
       THEN [StoredEvent(id, row) EXCEPT !.eventType = BalancedDepositedEventTypeV1]
       ELSE StoredEvent(id, row)

\* eventSerializer.DeserializeEvent of a stored event: the switch on the event
\* type, then deserializeEvent, which fails when GetJsonData cannot decode
\* the data column
DeserializeStoredEvent(event) ==
    IF event.eventType \notin {BankAccountCreatedEventTypeV1,
                               BalancedDepositedEventTypeV1,
                               BalanceWithdrawedEventTypeV1}
    THEN [err |-> ErrUnknownEventType, event |-> event.data]
    ELSE IF event.data.type = NotJSON
    THEN [err |-> ErrJsonData, event |-> event.data]
    ELSE DeserializeEvent(event.data)

\* NewBankAccountElasticsearchProjection
NewBankAccountElasticsearchProjection ==
    [version |-> 0, amount |-> 0, currency |-> USD,
     email |-> "", firstName |-> "", lastName |-> "",
     totalDeposits |-> 0, totalWithdrawals |-> 0, transactionCount |-> 0]

\* BankAccountElasticsearchProjection.WhenBankAccountCreated
WhenBankAccountCreated(p, event, version) ==
    [p EXCEPT !.email = event.email, !.firstName = event.firstName,
              !.lastName = event.lastName, !.amount = event.amount,
              !.currency = event.currency, !.version = version]

\* variant: the deposit is counted but not added to the balance
WhenBalanceDepositedNotAdded(p, event, version) ==
    [p EXCEPT !.totalDeposits = p.totalDeposits + event.amount,
              !.transactionCount = p.transactionCount + 1,
              !.version = version]

\* BankAccountElasticsearchProjection.WhenBalanceDeposited: GetBalance, Add
\* of money.New(amount, "USD") with the error dropped, SetBalance; when the
\* currencies differ Add returns nil and SetBalance writes money.New(0, "USD")
WhenBalanceDeposited(p, event, version) ==
    [p EXCEPT !.amount = IF p.currency = USD THEN p.amount + event.amount ELSE 0,
              !.currency = USD,
              !.totalDeposits = p.totalDeposits + event.amount,
              !.transactionCount = p.transactionCount + 1,
              !.version = version]

\* BankAccountElasticsearchProjection.WhenBalanceWithdrawn
WhenBalanceWithdrawn(p, event, version) ==
    [p EXCEPT !.amount = IF p.currency = USD THEN p.amount - event.amount ELSE 0,
              !.currency = USD,
              !.totalWithdrawals = p.totalWithdrawals + event.amount,
              !.transactionCount = p.transactionCount + 1,
              !.version = version]

\* no projection of any aggregate: the empty map of ReplayAllEvents
NoProjections == [id \in AggregateIDs |-> {}]

\* ReplayService.processEvent: the projection of the aggregate is taken from
\* the map, or made and put into it, then the event is deserialized and
\* applied by its type
processEvent(event, projections) ==
    LET old == projections[event.aggregateID]
        p == IF old = {} THEN NewBankAccountElasticsearchProjection
             ELSE CHOOSE x \in old : TRUE
        d == DeserializeStoredEvent(event)
        put(q) == [projections EXCEPT ![event.aggregateID] = {q}]
    IN IF d.err # NoErr THEN [err |-> d.err, projections |-> put(p)]
       ELSE CASE event.eventType = BankAccountCreatedEventTypeV1 ->
                   [err |-> NoErr,
                    projections |-> put(WhenBankAccountCreated(p, d.event, event.version))]
              [] event.eventType = BalancedDepositedEventTypeV1 ->
                   [err |-> NoErr,
                    projections |-> put(WhenBalanceDeposited(p, d.event, event.version))]
              [] event.eventType = BalanceWithdrawedEventTypeV1 ->
                   [err |-> NoErr,
                    projections |-> put(WhenBalanceWithdrawn(p, d.event, event.version))]
              [] OTHER -> [err |-> NoErr, projections |-> put(p)]

\* the loop of ReplayAllEvents over allEvents: an event that fails is put on
\* the list of errors and the loop goes on
RECURSIVE ProcessAllEvents(_, _)
ProcessAllEvents(allEvents, projections) ==
    IF allEvents = <<>> THEN projections
    ELSE ProcessAllEvents(Tail(allEvents),
                          processEvent(Head(allEvents), projections).projections)

\* pgEventStore.GetAllEvents for the rows of one aggregate: getAllEventsQuery
\* orders by timestamp, which is the now() of the inserting transaction, and
\* then by version; transactions of one aggregate begin in version order
GetAllEvents(id, rows) ==
    LET ordered == OrderByVersion(rows) IN
    [i \in 1..Len(ordered) |-> StoredEvent(id, ordered[i])]

(* ------------------------------- state --------------------------------- *)
NoResponse == [fromEventStore |-> FALSE, err |-> "no query", projection |-> {}]

\* key of microservices.snapshots: the migration creates the table with
\* PRIMARY KEY (aggregate_id); CREATE TABLE IF NOT EXISTS keeps a table that is
\* already there, and then the key is the one saveSnapshotQuery names
PrimaryKeyAggregateID == "aggregate_id"
UniqueAggregateIDVersion == "aggregate_id, version"
SnapshotKeys == {PrimaryKeyAggregateID, UniqueAggregateIDVersion}

VARIABLES
    snapshotFrequency,  \* cfg.SnapshotFrequency (SNAPSHOT_FREQUENCY)
    snapshotsKey,       \* unique key of microservices.snapshots
    events,             \* committed rows of microservices.events
    snapshots,          \* committed rows of microservices.snapshots
    lockHolder,         \* transaction holding the FOR UPDATE row lock
    pc,                 \* where each command handler is
    agg,                \* the aggregate instance each handler holds
    result,             \* the error the handler returned (NoErr: nil)
    txEvents,           \* event rows inserted by the open transaction
    txSnapshots,        \* snapshot rows inserted by the open transaction
    bus,                \* batches written to the topic, oldest first
    projection,         \* documents of bank_accounts with the aggregate id
    fetched,            \* messages (positions in bus) a worker has fetched
    committed,          \* messages whose offset has been committed
    wpc,                \* where each consumer worker is
    wmsg,               \* the message the worker is handling
    wpos,               \* the event of the batch the worker is at
    wfound,             \* foundProjection of UpdateConcurrently
    wagg,               \* the aggregate recreateProjection has loaded
    werr,               \* the error projection.When returned to handle
    response,           \* what the last GetById query returned
    replay              \* the call of ReplayAllEvents and the bank_accounts index

storeVars == <<events, snapshots, lockHolder>>
cfgVars == <<snapshotFrequency, snapshotsKey>>
procVars == <<pc, agg, result, txEvents, txSnapshots>>
workerVars == <<wpc, wmsg, wpos, wfound, wagg, werr>>
queryVars == <<response>>
replayVars == <<replay>>
readVars == <<projection, fetched, committed, workerVars, queryVars>>
vars == <<cfgVars, storeVars, procVars, bus, readVars, replayVars>>

InitWrite ==
    /\ snapshotFrequency \in 1..MaxFrequency
    /\ snapshotsKey \in SnapshotKeys
    /\ events = {}
    /\ snapshots = {}
    /\ lockHolder = NoProc
    /\ pc = [p \in Procs |-> "idle"]
    /\ agg = [p \in Procs |-> NewBankAccountAggregate]
    /\ result = [p \in Procs |-> NoErr]
    /\ txEvents = [p \in Procs |-> {}]
    /\ txSnapshots = [p \in Procs |-> {}]
    /\ bus = <<>>

\* the read model after init-mongo.js and the consumer group before any fetch
InitRead ==
    /\ projection = {}
    /\ fetched = {}
    /\ committed = {}
    /\ wpc = [w \in Workers |-> "idle"]
    /\ wmsg = [w \in Workers |-> NoMessage]
    /\ wpos = [w \in Workers |-> 0]
    /\ wfound = [w \in Workers |-> {}]
    /\ wagg = [w \in Workers |-> {}]
    /\ werr = [w \in Workers |-> NoErr]
    /\ response = NoResponse

\* no replay has been asked for and the index bank_accounts is empty
NoReplay ==
    [pc |-> "idle", allEvents |-> <<>>, pos |-> 0, projections |-> NoProjections,
     errors |-> 0, processedEvents |-> 0, index |-> NoProjections]

Init == InitWrite /\ InitRead /\ replay = NoReplay

(* --------------------------- command handlers -------------------------- *)
\* transactions that may still publish a batch
InFlight == {q \in Procs : pc[q] \in {"loaded", "locked", "inserted"}}

CanStart(p) ==
    /\ pc[p] \in {"idle", "done"}
    /\ Len(bus) + Cardinality(InFlight) < MaxMessages

\* the handler returns err; its aggregate instance is dropped
Return(p, err) ==
    /\ pc' = [pc EXCEPT ![p] = "done"]
    /\ result' = [result EXCEPT ![p] = err]
    /\ agg' = [agg EXCEPT ![p] = NewBankAccountAggregate]

\* the handler goes on to Save with the aggregate a
GoSave(p, a) ==
    /\ pc' = [pc EXCEPT ![p] = "loaded"]
    /\ result' = [result EXCEPT ![p] = NoErr]
    /\ agg' = [agg EXCEPT ![p] = a]

\* createBankAccount.Handle up to Save
HandleCreate(p, amount) ==
    /\ CanStart(p)
    /\ IF Exists(events)
       THEN Return(p, ErrBankAccountAlreadyExists)
       ELSE LET r == CreateBankAccount(NewBankAccountAggregate, amount) IN
            IF r.err # NoErr THEN Return(p, r.err) ELSE GoSave(p, r.agg)
    /\ UNCHANGED <<readVars, cfgVars, replayVars, storeVars, txEvents, txSnapshots, bus>>

\* depositeBalanceCmdHandler.Handle up to Save
HandleDeposit(p, amount) ==
    /\ CanStart(p)
    /\ LET l == Load(events, snapshots, NewBankAccountAggregate) IN
       IF l.err # NoErr THEN Return(p, l.err)
       ELSE LET r == DepositBalance(l.agg, amount) IN
            IF r.err # NoErr THEN Return(p, r.err) ELSE GoSave(p, r.agg)
    /\ UNCHANGED <<readVars, cfgVars, replayVars, storeVars, txEvents, txSnapshots, bus>>

\* withdrawBalanceCmdHandler.Handle up to Save
HandleWithdraw(p, amount) ==
    /\ CanStart(p)
    /\ LET l == Load(events, snapshots, NewBankAccountAggregate) IN
       IF l.err # NoErr THEN Return(p, l.err)
       ELSE LET r == WithdrawBalance(l.agg, amount) IN
            IF r.err # NoErr THEN Return(p, r.err) ELSE GoSave(p, r.agg)
    /\ UNCHANGED <<readVars, cfgVars, replayVars, storeVars, txEvents, txSnapshots, bus>>

(* ------------------------- pgEventStore.Save --------------------------- *)
\* the deferred tx.Rollback: the transaction's rows and its lock are gone
RollBackTx(p, err) ==
    /\ txEvents' = [txEvents EXCEPT ![p] = {}]
    /\ txSnapshots' = [txSnapshots EXCEPT ![p] = {}]
    /\ lockHolder' = IF lockHolder = p THEN NoProc ELSE lockHolder
    /\ Return(p, err)

\* variant: the table has no unique index on (aggregate_id, version)
UniqueViolationIgnored(rows, stored) == FALSE

\* UNIQUE(aggregate_id, version) of microservices.events against committed rows
UniqueViolation(rows, stored) == Versions(rows) \cap Versions(stored) # {}

\* variant: an INSERT never waits for another transaction's row
WaitsForInsertNever(p, rows) == FALSE

\* the same index against a row another open transaction has inserted: the
\* INSERT waits for that transaction to end
WaitsForInsert(p, rows) ==
    \E q \in Procs \ {p} : Versions(rows) \cap Versions(txEvents[q]) # {}

\* handleConcurrentWriteQuery: SELECT ... LIMIT 1 FOR UPDATE locks a committed
\* row of the aggregate when there is one, and nothing otherwise
handleConcurrency(p) ==
    /\ events # {} => lockHolder \in {NoProc, p}
    /\ lockHolder' = IF events # {} THEN p ELSE lockHolder

\* Save: db.Begin and the handleConcurrency at the top of saveEventsTx
SaveBegin(p) ==
    /\ pc[p] = "loaded"
    /\ IF agg[p].changes = <<>>
       THEN /\ Return(p, NoErr)
            /\ UNCHANGED lockHolder
       ELSE /\ handleConcurrency(p)
            /\ pc' = [pc EXCEPT ![p] = "locked"]
            /\ UNCHANGED <<agg, result>>
    /\ UNCHANGED <<readVars, cfgVars, replayVars, events, snapshots, txEvents, txSnapshots, bus>>

\* saveSnapshotQuery: its conflict target must be a unique key of the table
saveSnapshotTx(a) ==
    IF snapshotsKey = UniqueAggregateIDVersion
    THEN [err |-> NoErr, rows |-> {NewSnapshotFromAggregate(a)}]
    ELSE [err |-> ErrOnConflictTarget, rows |-> {}]

\* Save: the INSERTs of saveEventsTx, then saveSnapshotTx when the version is
\* a multiple of the snapshot frequency
SaveEvents(p) ==
    /\ pc[p] = "locked"
    /\ LET a == agg[p]
           rows == {SerializeEvent(a, i) : i \in 1..Len(a.changes)}
       IN /\ ~WaitsForInsert(p, rows)
          /\ IF UniqueViolation(rows, events)
             THEN RollBackTx(p, ErrUniqueViolation)
             ELSE IF a.version % snapshotFrequency = 0
             THEN LET s == saveSnapshotTx(a) IN
                  IF s.err # NoErr THEN RollBackTx(p, s.err)
                  ELSE /\ txEvents' = [txEvents EXCEPT ![p] = rows]
                       /\ txSnapshots' = [txSnapshots EXCEPT ![p] = s.rows]
                       /\ pc' = [pc EXCEPT ![p] = "inserted"]
                       /\ UNCHANGED <<agg, result, lockHolder>>
             ELSE /\ txEvents' = [txEvents EXCEPT ![p] = rows]
                  /\ pc' = [pc EXCEPT ![p] = "inserted"]
                  /\ UNCHANGED <<agg, result, lockHolder, txSnapshots>>
    /\ UNCHANGED <<readVars, cfgVars, replayVars, events, snapshots, bus>>

\* kafkaEventsBus.ProcessEvents: one message carrying the batch
ProcessEvents(p) ==
    /\ pc[p] = "inserted"
    /\ bus' = Append(bus, OrderByVersion(txEvents[p]))
    /\ pc' = [pc EXCEPT ![p] = "published"]
    /\ UNCHANGED <<readVars, cfgVars, replayVars, storeVars, agg, result, txEvents, txSnapshots>>

\* variant: the publish error is dropped and Save goes on to commit
ProcessEventsFailIgnored(p) ==
    /\ pc[p] = "inserted"
    /\ pc' = [pc EXCEPT ![p] = "published"]
    /\ UNCHANGED <<readVars, cfgVars, replayVars, storeVars, agg, result, txEvents, txSnapshots, bus>>

\* the publish returns an error: Save returns it and the deferred rollback runs
ProcessEventsFail(p) ==
    /\ pc[p] = "inserted"
    /\ RollBackTx(p, ErrPublish)
    /\ UNCHANGED <<readVars, cfgVars, replayVars, events, snapshots, bus>>

\* tx.Commit: the rows become visible and the lock is released
Commit(p) ==
    /\ pc[p] = "published"
    /\ events' = events \cup txEvents[p]
    /\ snapshots' = {s \in snapshots : s.version \notin Versions(txSnapshots[p])}
                       \cup txSnapshots[p]
    /\ txEvents' = [txEvents EXCEPT ![p] = {}]
    /\ txSnapshots' = [txSnapshots EXCEPT ![p] = {}]
    /\ lockHolder' = IF lockHolder = p THEN NoProc ELSE lockHolder
    /\ Return(p, NoErr)
    /\ UNCHANGED <<readVars, cfgVars, replayVars, bus>>

\* tx.Commit returns an error (connection lost): nothing is committed
CommitFail(p) ==
    /\ pc[p] = "published"
    /\ RollBackTx(p, ErrCommit)
    /\ UNCHANGED <<readVars, cfgVars, replayVars, events, snapshots, bus>>

\* es.AggregateBase.ToSnapshot, called by Save for its effect on the
\* aggregate: it may or may not empty the uncommitted changes
ToSnapshot(a) == {a, [a EXCEPT !.changes = <<>>]}

\* the aggregate instance as Save leaves it when it returns nil: ToSnapshot
\* when the version is a multiple of the frequency is the only call of Save
\* that can write to the aggregate
SavedAggregate(a, frequency) ==
    IF a.changes = <<>> THEN {a}
    ELSE IF a.version % frequency = 0 THEN ToSnapshot(a)
    ELSE {a}

NextWrite ==
    \E p \in Procs :
        \/ \E amount \in CmdAmounts : HandleCreate(p, amount)
        \/ \E amount \in CmdAmounts : HandleDeposit(p, amount)
        \/ \E amount \in CmdAmounts : HandleWithdraw(p, amount)
        \/ SaveBegin(p)
        \/ SaveEvents(p)
        \/ ProcessEvents(p)
        \/ ProcessEventsFail(p)
        \/ Commit(p)
        \/ CommitFail(p)

Spec == Init /\ [][NextWrite]_vars

(* -------------------- projection consumer (mongo) ---------------------- *)
\* the event the worker is handling
WorkerEvent(w) == bus[wmsg[w]][wpos[w]]

\* a reader that commits the offset of a message as soon as it is fetched
FetchMessageAutoCommit(w, m) ==
    /\ wpc[w] = "idle"
    /\ m \in (1..Len(bus)) \ fetched
    /\ fetched' = fetched \cup {m}
    /\ committed' = committed \cup {m}
    /\ wpc' = [wpc EXCEPT ![w] = "when"]
    /\ wmsg' = [wmsg EXCEPT ![w] = m]
    /\ wpos' = [wpos EXCEPT ![w] = 1]
    /\ werr' = [werr EXCEPT ![w] = NoErr]
    /\ UNCHANGED <<cfgVars, replayVars, storeVars, procVars, bus, queryVars>>
    /\ UNCHANGED <<projection, wfound, wagg>>

\* ProcessMessagesErrGroup: FetchMessage hands a worker a message no worker
\* has had; the writer sets no key, so batches of one aggregate lie in any
\* partitions and reach the workers in any order
FetchMessage(w, m) ==
    /\ wpc[w] = "idle"
    /\ m \in (1..Len(bus)) \ fetched
    /\ fetched' = fetched \cup {m}
    /\ wpc' = [wpc EXCEPT ![w] = "when"]
    /\ wmsg' = [wmsg EXCEPT ![w] = m]
    /\ wpos' = [wpos EXCEPT ![w] = 1]
    /\ werr' = [werr EXCEPT ![w] = NoErr]
    /\ UNCHANGED <<cfgVars, replayVars, storeVars, procVars, bus, queryVars>>
    /\ UNCHANGED <<projection, committed, wfound, wagg>>

\* handle returned nil: the loop of handleBankAccountEvents goes to the next
\* event of the batch, and after the last one to commitMessage
EventHandled(w) ==
    /\ wfound' = [wfound EXCEPT ![w] = {}]
    /\ IF wpos[w] < Len(bus[wmsg[w]])
       THEN /\ wpc' = [wpc EXCEPT ![w] = "when"]
            /\ wpos' = [wpos EXCEPT ![w] = wpos[w] + 1]
            /\ UNCHANGED <<wmsg, committed>>
       ELSE /\ wpc' = [wpc EXCEPT ![w] = "idle"]
            /\ wpos' = [wpos EXCEPT ![w] = 0]
            /\ wmsg' = [wmsg EXCEPT ![w] = NoMessage]
            /\ committed' = committed \cup {wmsg[w]}

\* projection.When returned err: handle goes on to recreateProjection
WhenFailed(w, err) ==
    /\ wpc' = [wpc EXCEPT ![w] = "recreate"]
    /\ werr' = [werr EXCEPT ![w] = err]
    /\ wfound' = [wfound EXCEPT ![w] = {}]
    /\ UNCHANGED <<projection, committed, wmsg, wpos>>

\* handle returns its error and handleBankAccountEvents returns: the worker
\* is back at FetchMessage
HandleReturnsError(w) ==
    /\ wpc' = [wpc EXCEPT ![w] = "idle"]
    /\ werr' = [werr EXCEPT ![w] = NoErr]
    /\ wmsg' = [wmsg EXCEPT ![w] = NoMessage]
    /\ wpos' = [wpos EXCEPT ![w] = 0]
    /\ wagg' = [wagg EXCEPT ![w] = {}]

\* projection.When for a BankAccountCreatedEventV1
WhenCreated(w) ==
    /\ wpc[w] = "when"
    /\ WorkerEvent(w).type = BankAccountCreatedEventTypeV1
    /\ LET r == onBankAccountCreated(projection, WorkerEvent(w)) IN
       IF r.err # NoErr THEN WhenFailed(w, r.err)
       ELSE /\ projection' = r.coll
            /\ EventHandled(w)
            /\ UNCHANGED werr
    /\ UNCHANGED <<cfgVars, replayVars, storeVars, procVars, bus, queryVars, fetched, wagg>>

\* projection.When for a deposit or a withdrawal, first half of
\* UpdateConcurrently: FindOne, the version check and the callback.  FindOne
\* is called with ctx, not with the session context, so it is no part of the
\* transaction the function starts
WhenFind(w) ==
    /\ wpc[w] = "when"
    /\ WorkerEvent(w).type # BankAccountCreatedEventTypeV1
    /\ LET e == WorkerEvent(w)
           r == FindExpectedVersion(projection, e.version - 1)
       IN IF r.err # NoErr THEN WhenFailed(w, r.err)
          ELSE /\ wfound' = [wfound EXCEPT
                               ![w] = {UpdateProjectionCallback(f, e) : f \in r.found}]
               /\ wpc' = [wpc EXCEPT ![w] = "update"]
               /\ UNCHANGED <<projection, committed, wmsg, wpos, werr>>
    /\ UNCHANGED <<cfgVars, replayVars, storeVars, procVars, bus, queryVars, fetched, wagg>>

\* second half of UpdateConcurrently: FindOneAndUpdate without upsert, again
\* with ctx
WhenUpdate(w) ==
    /\ wpc[w] = "update"
    /\ LET doc == CHOOSE f \in wfound[w] : TRUE
           r == FindOneAndUpdate(projection, doc, FALSE)
       IN IF r.err # NoErr THEN WhenFailed(w, r.err)
          ELSE /\ projection' = r.coll
               /\ EventHandled(w)
               /\ UNCHANGED werr
    /\ UNCHANGED <<cfgVars, replayVars, storeVars, procVars, bus, queryVars, fetched, wagg>>

\* recreateProjection: DeleteByAggregateID
RecreateDelete(w) ==
    /\ wpc[w] = "recreate"
    /\ projection' = DeleteByAggregateID(projection)
    /\ wpc' = [wpc EXCEPT ![w] = "deleted"]
    /\ UNCHANGED <<cfgVars, replayVars, storeVars, procVars, bus, queryVars>>
    /\ UNCHANGED <<fetched, committed, wmsg, wpos, wfound, wagg, werr>>

\* recreateProjection: aggregateStore.Load of a new aggregate
RecreateLoad(w) ==
    /\ wpc[w] = "deleted"
    /\ LET l == Load(events, snapshots, NewBankAccountAggregate) IN
       IF l.err # NoErr
       THEN HandleReturnsError(w) /\ UNCHANGED <<projection, committed>>
       ELSE /\ wagg' = [wagg EXCEPT ![w] = {l.agg}]
            /\ wpc' = [wpc EXCEPT ![w] = "loaded"]
            /\ UNCHANGED <<projection, committed, wmsg, wpos, werr>>
    /\ UNCHANGED <<cfgVars, replayVars, storeVars, procVars, bus, queryVars, fetched, wfound>>

\* recreateProjection: Insert of the mapped aggregate; when it fails handle
\* returns without a commit
RecreateInsert(w) ==
    /\ wpc[w] = "loaded"
    /\ LET a == CHOOSE x \in wagg[w] : TRUE
           r == Insert(projection, BankAccountToMongoProjection(a))
       IN IF r.err # NoErr
          THEN HandleReturnsError(w) /\ UNCHANGED <<projection, committed>>
          ELSE /\ projection' = r.coll
               /\ wpc' = [wpc EXCEPT ![w] = "recreated"]
               /\ wagg' = [wagg EXCEPT ![w] = {}]
               /\ UNCHANGED <<committed, wmsg, wpos, werr>>
    /\ UNCHANGED <<cfgVars, replayVars, storeVars, procVars, bus, queryVars, fetched, wfound>>

\* handle after a rebuild: commitErrMessage, then the error of When is
\* returned, which ends the loop over the batch
CommitErrMessage(w) ==
    /\ wpc[w] = "recreated"
    /\ committed' = committed \cup {wmsg[w]}
    /\ HandleReturnsError(w)
    /\ UNCHANGED <<cfgVars, replayVars, storeVars, procVars, bus, queryVars>>
    /\ UNCHANGED <<projection, fetched, wfound>>

(* ------------------- failures of the consumer's calls ------------------ *)
\* handleBankAccountEvents with the commitErrMessage that the code has
\* commented out: the offset of a message that cannot be deserialized is
\* committed
UnmarshalFailsCommitted(w, m) ==
    /\ wpc[w] = "idle"
    /\ m \in (1..Len(bus)) \ fetched
    /\ fetched' = fetched \cup {m}
    /\ committed' = committed \cup {m}
    /\ UNCHANGED <<cfgVars, replayVars, storeVars, procVars, bus, queryVars>>
    /\ UNCHANGED <<projection, workerVars>>

\* handleBankAccountEvents when serializer.Unmarshal of the message value
\* fails: the error is logged and the function returns, the worker is back at
\* FetchMessage
UnmarshalFails(w, m) ==
    /\ wpc[w] = "idle"
    /\ m \in (1..Len(bus)) \ fetched
    /\ fetched' = fetched \cup {m}
    /\ UNCHANGED <<cfgVars, replayVars, storeVars, procVars, bus, queryVars>>
    /\ UNCHANGED <<projection, committed, workerVars>>

\* recreateProjection when DeleteOne fails: the row stays as it is
RecreateDeleteFails(w) ==
    /\ wpc[w] = "recreate"
    /\ HandleReturnsError(w)
    /\ UNCHANGED <<cfgVars, replayVars, storeVars, procVars, bus, queryVars>>
    /\ UNCHANGED <<projection, fetched, committed, wfound>>

\* recreateProjection when aggregateStore.Load fails after the delete
RecreateLoadFails(w) ==
    /\ wpc[w] = "deleted"
    /\ HandleReturnsError(w)
    /\ UNCHANGED <<cfgVars, replayVars, storeVars, procVars, bus, queryVars>>
    /\ UNCHANGED <<projection, fetched, committed, wfound>>

\* recreateProjection when InsertOne fails for a reason of the storage
RecreateInsertFails(w) ==
    /\ wpc[w] = "loaded"
    /\ HandleReturnsError(w)
    /\ UNCHANGED <<cfgVars, replayVars, storeVars, procVars, bus, queryVars>>
    /\ UNCHANGED <<projection, fetched, committed, wfound>>

(* --------------------- query side (GetBankAccountByID) ----------------- *)
\* getBankAccountByIDQuery.Handle with from_event_store false, when
\* GetByAggregateID finds no document: the aggregate is loaded (version 0 is
\* "not found") and its projection is upserted.  A query that finds the
\* document changes nothing
GetBankAccountByID ==
    /\ projection = {}
    /\ LET l == Load(events, snapshots, NewBankAccountAggregate) IN
       /\ l.err = NoErr
       /\ l.agg.version # 0
       /\ projection' = Upsert(projection, BankAccountToMongoProjection(l.agg)).coll
    /\ UNCHANGED <<cfgVars, replayVars, storeVars, procVars, bus, queryVars>>
    /\ UNCHANGED <<fetched, committed, workerVars>>

\* a GetById query with the flag fromEventStore, answered in one step
GetBankAccountByIDQuery(fromEventStore, upsertErr) ==
    /\ LET r == Handle(events, snapshots, projection, fromEventStore, upsertErr) IN
       /\ projection' = r.coll
       /\ response' = [fromEventStore |-> fromEventStore, err |-> r.err,
                       projection |-> r.projection]
    /\ UNCHANGED <<cfgVars, replayVars, storeVars, procVars, bus>>
    /\ UNCHANGED <<fetched, committed, workerVars>>

\* the command handler whose batches the projection is checked against
Writer == 1

\* the command goes on to Save; a rejected command changes nothing but the
\* handler's own result
Accepted(p) == pc'[p] = "loaded"

NextProjection ==
    \/ \E amount \in CmdAmounts : HandleCreate(Writer, amount) /\ Accepted(Writer)
    \/ \E amount \in CmdAmounts : HandleDeposit(Writer, amount) /\ Accepted(Writer)
    \/ \E amount \in CmdAmounts : HandleWithdraw(Writer, amount) /\ Accepted(Writer)
    \/ SaveBegin(Writer)
    \/ SaveEvents(Writer)
    \/ ProcessEvents(Writer)
    \/ ProcessEventsFail(Writer)
    \/ Commit(Writer)
    \/ CommitFail(Writer)
    \/ \E w \in Workers : \E m \in 1..MaxMessages : FetchMessage(w, m)
    \/ \E w \in Workers : WhenCreated(w)
    \/ \E w \in Workers : WhenFind(w)
    \/ \E w \in Workers : WhenUpdate(w)
    \/ \E w \in Workers : RecreateDelete(w)
    \/ \E w \in Workers : RecreateLoad(w)
    \/ \E w \in Workers : RecreateInsert(w)
    \/ \E w \in Workers : CommitErrMessage(w)
    \/ GetBankAccountByID

\* the snapshots table keyed as saveSnapshotQuery needs it, the largest
\* snapshot frequency: appends at every version succeed, and Load goes through
\* a snapshot and the events after it
InitProjection ==
    /\ Init
    /\ snapshotFrequency = MaxFrequency
    /\ snapshotsKey = UniqueAggregateIDVersion

SpecProjection == InitProjection /\ [][NextProjection]_vars

\* one worker's loop: it fetches when a message is there and runs each call
\* of handleBankAccountEvents to its return
WorkerStep(w) ==
    \/ \E m \in 1..MaxMessages : FetchMessage(w, m)
    \/ WhenCreated(w)
    \/ WhenFind(w)
    \/ WhenUpdate(w)
    \/ RecreateDelete(w)
    \/ RecreateLoad(w)
    \/ RecreateInsert(w)
    \/ CommitErrMessage(w)

\* a Save that has begun runs to its commit or its rollback
SaveStep(p) ==
    \/ SaveBegin(p)
    \/ SaveEvents(p)
    \/ ProcessEvents(p)
    \/ Commit(p)

\* the consumer group keeps running and no Save hangs; commands and queries
\* arrive or not
SpecProjectionFair ==
    /\ SpecProjection
    /\ \A w \in Workers : WF_vars(WorkerStep(w))
    /\ WF_vars(SaveStep(Writer))

\* the consumer with the failures of its calls: the writer's commands without
\* failures of the bus or the commit, the workers, and each call of the
\* consumer failing at any time
NextConsumerFaults ==
    \/ \E amount \in CmdAmounts : HandleCreate(Writer, amount) /\ Accepted(Writer)
    \/ \E amount \in CmdAmounts : HandleDeposit(Writer, amount) /\ Accepted(Writer)
    \/ \E amount \in CmdAmounts : HandleWithdraw(Writer, amount) /\ Accepted(Writer)
    \/ SaveBegin(Writer)
    \/ SaveEvents(Writer)
    \/ ProcessEvents(Writer)
    \/ Commit(Writer)
    \/ \E w \in Workers : \E m \in 1..MaxMessages : FetchMessage(w, m)
    \/ \E w \in Workers : \E m \in 1..MaxMessages : UnmarshalFails(w, m)
    \/ \E w \in Workers : WhenCreated(w)
    \/ \E w \in Workers : WhenFind(w)
    \/ \E w \in Workers : WhenUpdate(w)
    \/ \E w \in Workers : RecreateDelete(w)
    \/ \E w \in Workers : RecreateDeleteFails(w)
    \/ \E w \in Workers : RecreateLoad(w)
    \/ \E w \in Workers : RecreateLoadFails(w)
    \/ \E w \in Workers : RecreateInsert(w)
    \/ \E w \in Workers : RecreateInsertFails(w)
    \/ \E w \in Workers : CommitErrMessage(w)

SpecConsumerFaults == InitProjection /\ [][NextConsumerFaults]_vars


(* ------------------------ ReplayService.ReplayAllEvents ---------------- *)
\* the tables a replay may read: up to MaxReplayEvents rows of two
\* aggregates in the order of getAllEventsQuery, each of any kind, with the
\* versions of an aggregate counted from 1
ReplayChoices == AggregateIDs \X EventKinds

TableOf(c) ==
    [i \in 1..Len(c) |->
       StoredEventOfKind(c[i][1],
                         Cardinality({j \in 1..i : c[j][1] = c[i][1]}),
                         c[i][2])]

ReplayTables ==
    {TableOf(c) : c \in UNION {[1..n -> ReplayChoices] : n \in 0..MaxReplayEvents}}

\* variant: the first event that fails ends the replay without indexing
ReplayProcessEventAborting ==
    /\ replay.pc = "events"
    /\ replay.pos <= Len(replay.allEvents)
    /\ LET r == processEvent(replay.allEvents[replay.pos], replay.projections) IN
       replay' = IF r.err # NoErr
                 THEN [replay EXCEPT !.pc = "done", !.errors = replay.errors + 1]
                 ELSE [replay EXCEPT !.pos = replay.pos + 1,
                                     !.projections = r.projections,
                                     !.processedEvents = replay.processedEvents + 1]
    /\ UNCHANGED <<cfgVars, storeVars, procVars, bus, readVars>>

\* one turn of the loop of ReplayAllEvents: processEvent, and when it fails
\* the error joins result.Errors and the loop continues
ReplayProcessEvent ==
    /\ replay.pc = "events"
    /\ replay.pos <= Len(replay.allEvents)
    /\ LET r == processEvent(replay.allEvents[replay.pos], replay.projections) IN
       replay' = [replay EXCEPT
                    !.pos = replay.pos + 1,
                    !.projections = r.projections,
                    !.errors = IF r.err # NoErr THEN replay.errors + 1
                               ELSE replay.errors,
                    !.processedEvents = IF r.err # NoErr THEN replay.processedEvents
                                        ELSE replay.processedEvents + 1]
    /\ UNCHANGED <<cfgVars, storeVars, procVars, bus, readVars>>

\* after the loop: BulkIndex of every projection of the map when there is one
ReplayBulkIndex ==
    /\ replay.pc = "events"
    /\ replay.pos > Len(replay.allEvents)
    /\ replay' = [replay EXCEPT
                    !.pc = "done",
                    !.index = [id \in AggregateIDs |->
                                 IF replay.projections[id] # {}
                                 THEN replay.projections[id]
                                 ELSE replay.index[id]]]
    /\ UNCHANGED <<cfgVars, storeVars, procVars, bus, readVars>>

NextReplay == ReplayProcessEvent \/ ReplayBulkIndex

\* ReplayAllEvents after GetAllEvents has returned the table
InitReplay ==
    /\ InitWrite
    /\ InitRead
    /\ snapshotFrequency = MaxFrequency
    /\ snapshotsKey = UniqueAggregateIDVersion
    /\ \E table \in ReplayTables :
         replay = [NoReplay EXCEPT !.pc = "events", !.allEvents = table, !.pos = 1]

SpecReplay == InitReplay /\ [][NextReplay]_vars

\* one command handler and the GetById queries, with and without a failing
\* upsert
NextQuery ==
    \/ \E amount \in CmdAmounts : HandleCreate(Writer, amount)
    \/ \E amount \in CmdAmounts : HandleDeposit(Writer, amount)
    \/ \E amount \in CmdAmounts : HandleWithdraw(Writer, amount)
    \/ SaveBegin(Writer)
    \/ SaveEvents(Writer)
    \/ ProcessEvents(Writer)
    \/ ProcessEventsFail(Writer)
    \/ Commit(Writer)
    \/ CommitFail(Writer)
    \/ \E fromEventStore \in BOOLEAN : \E upsertErr \in {NoErr, ErrUpsert} :
          GetBankAccountByIDQuery(fromEventStore, upsertErr)

SpecQuery == Init /\ [][NextQuery]_vars

(* ======================= properties of the write side ================== *)
\* the aggregate rebuilt from events 1..v only, no snapshot involved
ReplayTo(v) == loadEventsIntoVersion(events, NewBankAccountAggregate, v)
ReplayAll == loadEvents(events, NewBankAccountAggregate)

\* C1: in every reachable state of the event store the committed versions of
\* the aggregate are exactly 1, 2, ..., N: no gap and no duplicate.
DenseVersions ==
    /\ Versions(events) = 1..Cardinality(events)
    /\ OrderByVersion(events) \in Seq(events)
    /\ \A i \in 1..Cardinality(events) : OrderByVersion(events)[i].version = i

\* C1 case: several committed events and a Save that failed and rolled back
DenseVersionsWitness ==
    /\ Cardinality(events) >= 2
    /\ \E p \in Procs :
         /\ pc[p] = "done"
         /\ result[p] \in {ErrUniqueViolation, ErrPublish, ErrCommit}

PublishFailureRollsBack ==
    [][\A p \in Procs :
         (pc[p] = "inserted" /\ pc'[p] # "inserted" /\ bus' = bus)
         => /\ pc'[p] = "done"
            /\ result'[p] = ErrPublish
            /\ txEvents'[p] = {} /\ txSnapshots'[p] = {}
            /\ events' = events /\ snapshots' = snapshots
            /\ Load(events', snapshots', NewBankAccountAggregate)
                 = Load(events, snapshots, NewBankAccountAggregate)]_vars

\* C3 case: a Save whose batch carried a snapshot row failed at the publish
PublishFailureWitness ==
    /\ snapshotFrequency = 1
    /\ snapshotsKey = UniqueAggregateIDVersion
    /\ \E p \in Procs : pc[p] = "done" /\ result[p] = ErrPublish

\* C4: the balance obtained by replaying the committed events is >= 0 after
\* every event prefix.
BalanceNeverNegative ==
    \A v \in Versions(events) :
        /\ ReplayTo(v).err = NoErr
        /\ ReplayTo(v).agg.amount >= 0

\* C4 case: a committed withdrawal brought the balance to zero
BalanceNeverNegativeWitness ==
    \E r \in events :
        /\ r.type = BalanceWithdrawedEventTypeV1
        /\ ReplayTo(r.version).agg.amount = 0

GetByVersionEqualsReplay ==
    \A v \in 1..Cardinality(events) :
        LET g == GetByVersion(events, snapshots, v, snapshotFrequency)
            want == BankAccountToMongoProjection(ReplayTo(v).agg)
        IN /\ g.err = NoErr
           /\ \A x \in g.projection :
                /\ x.version = v
                /\ x.balance = want.balance
                /\ x.currency = want.currency

\* the snapshot LoadByVersion starts from for the version v, if any
SnapshotFor(v) ==
    GetSnapshotByVersion(snapshots, (v \div snapshotFrequency) * snapshotFrequency)

\* C8 case: one version is served from a snapshot plus the events after it,
\* another from a snapshot while a later event is in the log
GetByVersionWitness ==
    /\ \E v \in 1..Cardinality(events) :
         \E s \in SnapshotFor(v) : s.version < v
    /\ \E v \in 1..Cardinality(events) :
         SnapshotFor(v) # {} /\ v < Cardinality(events)

\* no other handler is between its load and the end of its Save
Alone(p) == \A q \in Procs \ {p} : pc[q] \in {"idle", "done"}

\* C9: from no events, Create b, then Deposit d, then Withdraw w (w <= b+d),
\* issued one after the other, all succeed and leave the events Created,
\* Deposited, Withdrawed at versions 1, 2, 3 with balance b + d - w.
CreateDepositWithdraw ==
    [][\A p \in Procs : \A amount \in 1..MaxAmount :
         /\ (/\ Alone(p)
             /\ Cardinality(events) = 1
             /\ \A r \in events : r.type = BankAccountCreatedEventTypeV1
             /\ HandleDeposit(p, amount))
            => /\ pc'[p] = "loaded"
               /\ agg'[p].version = 2
               /\ agg'[p].amount = ReplayAll.agg.amount + amount
         /\ (/\ Alone(p)
             /\ Cardinality(events) = 2
             /\ ReplayAll.agg.amount >= amount
             /\ \E r \in events : r.type = BankAccountCreatedEventTypeV1
             /\ HandleWithdraw(p, amount))
            => /\ pc'[p] = "loaded"
               /\ agg'[p].version = 3
               /\ agg'[p].amount = ReplayAll.agg.amount - amount]_vars

\* C10: a Withdraw whose amount exceeds the current balance fails with the
\* insufficient-balance error, appends no event, publishes nothing and leaves
\* the event count and the balance unchanged.
OverdraftRejected ==
    [][\A p \in Procs : \A amount \in 1..MaxAmount :
         (/\ HandleWithdraw(p, amount)
          /\ ReplayAll.err = NoErr
          /\ amount > ReplayAll.agg.amount)
         => /\ pc'[p] = "done"
            /\ result'[p] = ErrNotEnoughBalance
            /\ events' = events /\ snapshots' = snapshots
            /\ txEvents' = txEvents /\ bus' = bus]_vars

\* C10 case: an account with a positive balance refused a withdrawal
OverdraftRejectedWitness ==
    /\ ReplayAll.agg.amount > 0
    /\ \E p \in Procs : pc[p] = "done" /\ result[p] = ErrNotEnoughBalance

(* ======================= properties of the read model ================== *)
\* the event is a deposit or a withdrawal
IsBalanceUpdate(e) ==
    e.type \in {BalancedDepositedEventTypeV1, BalanceWithdrawedEventTypeV1}

\* what the event adds to a read-model balance
BalanceDelta(e) ==
    IF e.type = BalancedDepositedEventTypeV1
    THEN Float64(e.amount) ELSE 0 - Float64(e.amount)

\* C6: a Deposited/Withdrawn event is applied to the read-model row iff the
\* row's version is event.version - 1; when it is applied the row's version
\* becomes event.version and its balance changes by exactly the event amount;
\* when the gate fails or the row is missing the update returns an error and
\* leaves the row unchanged.
VersionGatedUpdate ==
    [][\A w \in Workers :
         /\ (wpc[w] = "when" /\ wpc'[w] # "when" /\ IsBalanceUpdate(WorkerEvent(w)))
            => /\ projection' = projection
               /\ wpc'[w] \in {"update", "recreate"}
               /\ wpc'[w] = "update"
                    <=> \E x \in projection : x.version = WorkerEvent(w).version - 1
         /\ (wpc[w] = "update" /\ wpc'[w] = "recreate")
            => projection' = projection
         /\ (wpc[w] = "update" /\ wpc'[w] \notin {"update", "recreate"})
            => /\ projection # {}
               /\ \A x \in projection : \A y \in projection' :
                    /\ x.version = WorkerEvent(w).version - 1
                    /\ y.version = WorkerEvent(w).version
                    /\ y.balance = x.balance + BalanceDelta(WorkerEvent(w))]_vars

\* C7: when the version gate fails for an event the consumer deletes the row,
\* loads the aggregate from the event store and inserts its projection; after
\* the rebuild the row's version and balance equal those of the authoritative
\* aggregate in the event store.
RebuildEqualsEventStore ==
    [][\A w \in Workers :
         /\ (wpc[w] = "when" /\ wpc'[w] # "when" /\ IsBalanceUpdate(WorkerEvent(w))
               /\ \A x \in projection : x.version # WorkerEvent(w).version - 1)
            => wpc'[w] = "recreate"
         /\ (wpc[w] = "recreate" /\ wpc'[w] # "recreate")
            => wpc'[w] = "deleted" /\ projection' = {}
         /\ (wpc[w] = "deleted" /\ wpc'[w] # "deleted")
            => wpc'[w] = "loaded" /\ wagg'[w] # {}
         /\ (wpc[w] = "loaded" /\ wpc'[w] = "recreated")
            => /\ projection' # {}
               /\ \A y \in projection' :
                    /\ y.version = Cardinality(events')
                    /\ y.balance = AsMajorUnits(ReplayAll.agg.amount,
                                                ReplayAll.agg.currency)]_vars

(* ============================ further properties ======================= *)
\* C11: when two Deposits are issued concurrently against the aggregate at
\* version n and one fails with the concurrency conflict, re-issuing the failed
\* Deposit after the winner has committed succeeds and appends version n + 2,
\* so that the balance reflects both deposits exactly once.
RetryAfterConflictSucceeds ==
    \A p \in Procs : \A amount \in 1..MaxAmount :
        (/\ pc[p] = "done" /\ result[p] = ErrUniqueViolation /\ Alone(p)
         /\ \E e \in events : /\ e.version = Cardinality(events)
                              /\ e.type = BalancedDepositedEventTypeV1)
        => LET l == Load(events, snapshots, NewBankAccountAggregate)
               r == DepositBalance(l.agg, amount)
           IN /\ l.err = NoErr
              /\ r.err = NoErr
              /\ r.agg.version = Cardinality(events) + 1
              /\ r.agg.amount = ReplayAll.agg.amount + amount
              /\ UniqueViolation({SerializeEvent(r.agg, 1)}, events) = FALSE
              /\ r.agg.version % snapshotFrequency = 0
                    => saveSnapshotTx(r.agg).err = NoErr

\* C12: with snapshot frequency F and single-event Saves, a Save that appends
\* a version that is a multiple of F writes its snapshot, so a snapshot row
\* exists for every committed multiple of F; earlier snapshots stay readable
\* by their exact version; Load starts from the latest snapshot and replays
\* only the events above the snapshot's version.
SnapshotAtEveryMultiple ==
    /\ [](\A v \in Versions(events) :
            v % snapshotFrequency = 0
            => \E s \in GetSnapshotByVersion(snapshots, v) :
                 /\ s.state.version = v
                 /\ s.state.amount = ReplayTo(v).agg.amount)
    /\ [](\A s \in GetSnapshot(snapshots) :
            /\ s.version = (Cardinality(events) \div snapshotFrequency)
                               * snapshotFrequency
            /\ Load(events, snapshots, NewBankAccountAggregate)
                 = RaiseRows(UnmarshalAggregate(s.state, NewBankAccountAggregate),
                             OrderByVersion({r \in events : r.version > s.version})))
    /\ [][\A p \in Procs :
            (/\ pc[p] = "locked" /\ pc'[p] # "locked"
             /\ Len(agg[p].changes) = 1
             /\ agg[p].version % snapshotFrequency = 0
             /\ agg[p].version \notin Versions(events))
            => /\ pc'[p] = "inserted"
               /\ Versions(txEvents'[p]) = {agg[p].version}
               /\ \E s \in txSnapshots'[p] : s.version = agg[p].version]_vars

\* C13: the batches published for the aggregate lie in one partition, so the
\* projection consumer observes them in ascending version order: a message is
\* fetched only after every message that carries a lower version.
BatchesObservedInVersionOrder ==
    [][\A w \in Workers :
         (wpc[w] = "idle" /\ wpc'[w] = "when")
         => \A k \in 1..Len(bus) :
              bus[k][1].version < bus[wmsg'[w]][1].version => k \in fetched]_vars

\* C14: the version stored in the read-model row of the aggregate never
\* decreases, whatever the interleaving of consumer updates, consumer rebuilds
\* and query-side upserts on a miss.
RowVersionNeverDecreases ==
    [][\A x \in projection : \A y \in projection' : y.version >= x.version]_vars

\* the read-model row exists and has the version and the balance of the
\* aggregate in the event store
RowEqualsEventStore ==
    /\ projection # {}
    /\ \A y \in projection :
         /\ y.version = Cardinality(events)
         /\ y.balance = AsMajorUnits(ReplayAll.agg.amount, ReplayAll.agg.currency)

\* C15: if commands stop arriving and the consumer keeps running, then
\* eventually, for the aggregate with committed events, the read-model row
\* exists and its version and balance equal those of the aggregate in the
\* event store, and stay so.
ReadModelConverges ==
    <>[](pc[Writer] \in {"idle", "done"})
    => <>[](events # {} => RowEqualsEventStore)

\* what a query answers for the aggregate replayed from all committed events
ProjectedReplay(y) ==
    /\ y.version = Cardinality(events)
    /\ y.balance = AsMajorUnits(ReplayAll.agg.amount, ReplayAll.agg.currency)
    /\ y.currency = ReplayAll.agg.currency
    /\ y.email = ReplayAll.agg.email

ReadModelFirstThenEventStore ==
    [][\A upsertErr \in {NoErr, ErrUpsert} :
         GetBankAccountByIDQuery(FALSE, upsertErr)
         => /\ ~response'.fromEventStore
            /\ projection # {}
                 => /\ response'.err = NoErr
                    /\ response'.projection = projection
                    /\ projection' = projection
            /\ (projection = {} /\ events = {})
                 => /\ response'.err = ErrBankAccountNotFound
                    /\ response'.projection = {}
                    /\ projection' = {}
            /\ (projection = {} /\ events # {})
                 => /\ response'.err = NoErr
                    /\ Cardinality(response'.projection) = 1
                    /\ \A y \in response'.projection : ProjectedReplay(y)
                    /\ projection' = IF upsertErr = NoErr
                                     THEN response'.projection ELSE {}]_vars

\* C17 case: on a miss the upsert failed and the query still returned the
\* projection of the aggregate
ReadModelFirstWitness ==
    /\ ~response.fromEventStore
    /\ response.err = NoErr
    /\ response.projection # {}
    /\ projection = {}

\* C18: GetByVersion(id, v) fails with NotFound whenever v is greater than the
\* current version of the aggregate, also when the aggregate has no events,
\* on the snapshot path and on the from-scratch path.
GetByVersionAboveCurrentNotFound ==
    \A v \in (Cardinality(events) + 1)..(Cardinality(events) + MaxFrequency + 1) :
        LET g == GetByVersion(events, snapshots, v, snapshotFrequency) IN
        /\ g.err = ErrBankAccountNotFound
        /\ g.projection = {}

\* C18 case: above the current version one request starts from a snapshot and
\* another one from the first event
GetByVersionAboveCurrentWitness ==
    /\ events # {}
    /\ \E v \in (Cardinality(events) + 1)..(Cardinality(events) + MaxFrequency + 1) :
         SnapshotFor(v) # {}
    /\ \E v \in (Cardinality(events) + 1)..(Cardinality(events) + MaxFrequency + 1) :
         SnapshotFor(v) = {}

\* the handler p returns err and neither the event store nor the bus changes
Rejected(p, err) ==
    /\ pc'[p] = "done"
    /\ result'[p] = err
    /\ events' = events /\ snapshots' = snapshots
    /\ txEvents' = txEvents /\ txSnapshots' = txSnapshots
    /\ bus' = bus

\* C19: Create for an aggregate id that already has at least one event fails
\* with AlreadyExists and appends and publishes nothing.
CreateOnExistingRejected ==
    [][\A p \in Procs : \A amount \in CmdAmounts :
         (HandleCreate(p, amount) /\ events # {})
         => Rejected(p, ErrBankAccountAlreadyExists)]_vars

\* C19 case: a Create was refused on an aggregate that has events
CreateOnExistingWitness ==
    /\ events # {}
    /\ \E p \in Procs : pc[p] = "done" /\ result[p] = ErrBankAccountAlreadyExists

\* C20: Create with a negative initial balance, and Deposit or Withdraw with
\* an amount <= 0, are rejected with the invalid-amount error: the aggregate
\* method returns it and leaves version, balance and uncommitted changes as
\* they are, and the handler returns without appending or publishing.  Create
\* reaches the aggregate only for an id without events.
InvalidAmountRejected ==
    [][\A p \in Procs : \A amount \in CmdAmounts :
         LET a == Load(events, snapshots, NewBankAccountAggregate).agg IN
         /\ amount < 0
              => /\ CreateBankAccount(a, amount)
                      = [err |-> ErrInvalidBalanceAmount, agg |-> a]
                 /\ (HandleCreate(p, amount) /\ events = {})
                      => Rejected(p, ErrInvalidBalanceAmount)
                 /\ (HandleCreate(p, amount) /\ events # {})
                      => Rejected(p, ErrBankAccountAlreadyExists)
         /\ amount <= 0
              => /\ DepositBalance(a, amount)
                      = [err |-> ErrInvalidBalanceAmount, agg |-> a]
                 /\ WithdrawBalance(a, amount)
                      = [err |-> ErrInvalidBalanceAmount, agg |-> a]
                 /\ HandleDeposit(p, amount) => Rejected(p, ErrInvalidBalanceAmount)
                 /\ HandleWithdraw(p, amount) => Rejected(p, ErrInvalidBalanceAmount)]_vars

\* C20 case: a Deposit or Withdraw was refused for its amount on an aggregate
\* that has events, while another handler is in the middle of its Save
InvalidAmountWitness ==
    /\ events # {}
    /\ \E p \in Procs : \E q \in Procs \ {p} :
         /\ pc[p] = "done" /\ result[p] = ErrInvalidBalanceAmount
         /\ pc[q] = "inserted"

RestoredFrom(s) == UnmarshalAggregate(s.state, NewBankAccountAggregate)

\* every stored snapshot has a committed event of its version
SnapshotHasItsEvent == \A s \in snapshots : s.version \in Versions(events)

\* a snapshot becomes visible only in the commit that makes the event of its
\* version visible, and a Save that failed in its snapshot write has left no
\* event behind
SnapshotSavedWithItsBatch ==
    \A p \in Procs :
        /\ \A s \in snapshots' \ snapshots :
             s.version \in Versions(events') \ Versions(events)
        /\ (pc[p] = "locked" /\ pc'[p] = "done"
               /\ result'[p] = ErrOnConflictTarget)
            => /\ events' = events /\ snapshots' = snapshots
               /\ txEvents'[p] = {} /\ txSnapshots'[p] = {}

EventsHistoryIsTheLog ==
    LET h == GetEventsHistory(EventsTable(events), TheAggregateID) IN
    /\ h.aggregateID = TheAggregateID
    /\ h.totalEvents = Len(h.events)
    /\ h.totalEvents = Cardinality(events)
    /\ {h.events[i].data : i \in 1..Len(h.events)} = events
    /\ \A i \in 1..Len(h.events) :
         /\ h.events[i].aggregateID = TheAggregateID
         /\ h.events[i].aggregateType = "BankAccount"
         /\ h.events[i].eventType = h.events[i].data.type
         /\ h.events[i].version = h.events[i].data.version
         /\ i > 1 => h.events[i - 1].version < h.events[i].version

\* C23 case: the aggregate has several events, of more than one type, next to
\* the row of the other aggregate
EventsHistoryWitness ==
    /\ Cardinality(events) >= 2
    /\ \E r \in events : r.type = BalanceWithdrawedEventTypeV1
    /\ GetEventsHistory(EventsTable(events), OtherAggregateID).totalEvents = 1

\* the handlers whose Save is past handleConcurrency and has not returned
InTransaction == {p \in Procs : pc[p] \in {"locked", "inserted", "published"}}

\* C24: the FOR UPDATE row lock taken at the start of the append serializes
\* the writers of the aggregate, with or without existing events: a
\* transaction that is past the lock writes a version that no other
\* transaction is writing or has committed.
RowLockSerializesWriters ==
    \A p \in InTransaction :
        /\ agg[p].version \notin Versions(events)
        /\ \A q \in InTransaction \ {p} : agg[q].version # agg[p].version

\* C25: the version-gated projection update (read the row, check its version,
\* apply the delta, write the row) is one atomic unit per event: between the
\* version check of a worker and its write no other write to the row takes
\* effect.
UpdateIsAtomic ==
    [][\A w \in Workers :
         (wpc[w] = "update" /\ wpc'[w] = "update") => projection' = projection]_vars

\* C26: the projection rebuild (delete the row, load the aggregate, insert
\* the row) is one atomic unit: between the delete and the insert of a worker
\* no query finds the row missing and no update, rebuild or upsert of another
\* writer touches the row.
RebuildIsAtomic ==
    [][\A w \in Workers :
         (wpc[w] \in {"deleted", "loaded"} /\ wpc'[w] = wpc[w])
         => /\ projection' = projection
            /\ ~GetBankAccountByID]_vars

\* C27: the offset of a message is committed only by the worker that holds the
\* message, at the last event of its batch, and only in the step in which that
\* event is applied to the row or right after the row has been rebuilt; no
\* commit happens while events of the batch are still to be handled.
CommitOnlyAfterWholeBatch ==
    [][\A m \in committed' \ committed :
         \E w \in Workers :
            /\ wmsg[w] = m
            /\ wpos[w] = Len(bus[m])
            /\ \/ wpc[w] = "recreated"
               \/ /\ wpc[w] \in {"when", "update"}
                  /\ \E f \in projection' : f.version = bus[m][wpos[w]].version]_vars

\* C27 witness: one message has been committed, and a worker that has rebuilt
\* the row for the only event of another message is about to commit it.
CommitOnlyAfterWholeBatchWitness ==
    /\ committed # {}
    /\ \E w \in Workers :
         /\ wpc[w] = "recreated"
         /\ wmsg[w] \notin committed
         /\ wpos[w] = Len(bus[wmsg[w]])

\* C28: when a worker gives up a message because the rebuild that followed a
\* failed apply has itself failed (at the delete, the load or the insert), or
\* because the message value cannot be deserialized, the offset of that
\* message is not committed in that step, and since only the worker that
\* holds a message commits it, it is not committed later either.
FailedMessageNotCommitted ==
    [][(\A w \in Workers :
           (wpc[w] \in {"recreate", "deleted", "loaded"} /\ wpc'[w] = "idle")
           => (committed' = committed /\ wmsg[w] \notin committed'))
       /\ (\A m \in fetched' \ fetched :
             (\A x \in Workers : wmsg'[x] # m) => m \notin committed')
       /\ (\A n \in committed' \ committed :
             \E y \in Workers : wmsg[y] = n)]_vars

\* C28 witness: a message has been fetched, no worker holds it any more and
\* its offset is not committed, while another message has been committed.
FailedMessageNotCommittedWitness ==
    /\ committed # {}
    /\ \E m \in fetched \ committed : \A w \in Workers : wmsg[w] # m

\* C29: a worker that handles a Created event while a row exists treats it as
\* a replay: the step leaves the row as it is and ends the message with its
\* offset committed, and the worker never deletes the row for that event.
CreatedOnExistingRowIsReplay ==
    [][\A w \in Workers :
         (/\ wpc[w] \in {"when", "recreate"}
          /\ wpc'[w] # wpc[w]
          /\ WorkerEvent(w).type = BankAccountCreatedEventTypeV1
          /\ projection # {})
         => /\ projection' = projection
            /\ wpc'[w] = "idle"
            /\ wmsg[w] \in committed']_vars

\* C30: a worker that handles a deposit or a withdrawal whose version is not
\* above the version of the row leaves the row as it is and begins no rebuild.
StaleEventIsNoOp ==
    [][\A w \in Workers :
         (/\ wpc[w] = "when"
          /\ wpc'[w] # wpc[w]
          /\ WorkerEvent(w).type # BankAccountCreatedEventTypeV1
          /\ \E f \in projection : WorkerEvent(w).version <= f.version)
         => /\ projection' = projection
            /\ wpc'[w] # "recreate"]_vars

(* ------------------------- remaining properties ------------------------ *)
\* C31: when Save returns without error the uncommitted changes of the
\* aggregate instance are empty, so that a second Save of the instance finds
\* nothing to append or publish.
SaveClearsChanges ==
    [][\A p \in Procs :
         (pc[p] = "published" /\ pc'[p] = "done" /\ result'[p] = NoErr)
         => \A a \in SavedAggregate(agg[p], snapshotFrequency) : a.changes = <<>>]_vars

\* the events of the aggregate id that eventSerializer can deserialize, in
\* the order of the table
Replayable(table, id) ==
    SelectSeq(table, LAMBDA e : e.aggregateID = id
                                 /\ DeserializeStoredEvent(e).err = NoErr)

\* the rows of the table that fail in processEvent
FailingRows(table) ==
    {i \in 1..Len(table) : DeserializeStoredEvent(table[i]).err # NoErr}

\* C32: a replay that has ended has gone through the whole table: each event
\* of an unknown type or with an undecodable payload is counted as an error
\* and left out, every other event, also after a failed one, is folded into
\* the projection of its aggregate, and the projections have been indexed.
ReplaySkipsFailedEvents ==
    replay.pc = "done" =>
        /\ replay.pos = Len(replay.allEvents) + 1
        /\ replay.errors = Cardinality(FailingRows(replay.allEvents))
        /\ replay.processedEvents + replay.errors = Len(replay.allEvents)
        /\ \A id \in AggregateIDs :
             Replayable(replay.allEvents, id) # <<>>
             => replay.index[id]
                  = ProcessAllEvents(Replayable(replay.allEvents, id), NoProjections)[id]

\* C32 witness: a replay has ended whose table holds an event of an unknown
\* type and an undecodable one, followed by a deposit of the same aggregate
\* that is in the indexed projection.
ReplaySkipsFailedEventsWitness ==
    /\ replay.pc = "done"
    /\ \E i, j, k \in 1..Len(replay.allEvents) :
         /\ i < k /\ j < k
         /\ replay.allEvents[i].eventType = BankAccountClosedEventTypeV1
         /\ replay.allEvents[j].data.type = NotJSON
         /\ replay.allEvents[k].eventType = BalancedDepositedEventTypeV1
         /\ replay.allEvents[k].data.type # NotJSON
         /\ replay.allEvents[i].aggregateID = replay.allEvents[k].aggregateID
         /\ replay.allEvents[j].aggregateID = replay.allEvents[k].aggregateID
         /\ \E p \in replay.index[replay.allEvents[k].aggregateID] :
              p.version = replay.allEvents[k].version /\ p.amount = 1

\* the projection the replay service folds from all events of the aggregate
FoldedProjection ==
    ProcessAllEvents(GetAllEvents(TheAggregateID, events), NoProjections)[TheAggregateID]

\* C33: whenever the aggregate has events, the projection the replay service
\* folds from them has the version and the balance (amount and currency) of
\* the aggregate that Load rehydrates from the same events.
ReplayFoldEqualsLoad ==
    events # {} =>
        LET l == Load(events, snapshots, NewBankAccountAggregate) IN
        /\ l.err = NoErr
        /\ FoldedProjection # {}
        /\ \A p \in FoldedProjection :
             /\ p.version = l.agg.version
             /\ p.amount = l.agg.amount
             /\ p.currency = l.agg.currency

\* C33 witness: the log holds at least three events with a deposit and a
\* withdrawal among them, and the folded projection has a positive balance.
ReplayFoldEqualsLoadWitness ==
    /\ Cardinality(events) >= 3
    /\ \E e \in events : e.type = BalancedDepositedEventTypeV1
    /\ \E e \in events : e.type = BalanceWithdrawedEventTypeV1
    /\ \E p \in FoldedProjection : p.amount > 0 /\ p.version = Cardinality(events)

\* C34: in the committed log the event of version 1, and no other, is the
\* Created event: a deposit or a withdrawal on an id without events appends
\* nothing, and of concurrent creates one Created event remains.
FirstEventIsCreated ==
    \A e \in events : (e.version = 1) <=> (e.type = BankAccountCreatedEventTypeV1)

\* the command of handler p returns success in this step
ReturnsSuccess(p) == pc[p] = "published" /\ pc'[p] = "done" /\ result'[p] = NoErr

\* what the command of an aggregate with one uncommitted change adds to the
\* balance
CommandAmount(a) ==
    IF a.changes[1].type = BalanceWithdrawedEventTypeV1
    THEN 0 - a.changes[1].amount ELSE a.changes[1].amount

\* every command that returns success adds one event and exactly its amount
\* to the balance of the loaded aggregate, and nothing else changes the log
EachSuccessAddsItsAmount ==
    (\A p \in Procs :
        ReturnsSuccess(p)
        => (/\ Cardinality(events') = Cardinality(events) + 1
            /\ Load(events', snapshots', NewBankAccountAggregate).err = NoErr
            /\ Load(events', snapshots', NewBankAccountAggregate).agg.amount
                 = Load(events, snapshots, NewBankAccountAggregate).agg.amount
                   + CommandAmount(agg[p])))
    /\ (events' # events => \E p \in Procs : ReturnsSuccess(p))

\* the log, when it is not empty, begins with the Created event
LogBeginsWithCreated ==
    events # {} =>
        \E e \in events : e.version = 1 /\ e.type = BankAccountCreatedEventTypeV1

\* C35: no update is lost: the log is the Created event followed by one event
\* for each deposit or withdrawal that returned success, and the balance of
\* the loaded aggregate is the initial balance plus the deposits minus the
\* withdrawals of exactly those commands.
NoLostUpdate ==
    []LogBeginsWithCreated /\ [][EachSuccessAddsItsAmount]_vars

\* C36: when no Save is between its publish and its return, every event of
\* every batch on the bus is a committed row of the event store.
PublishedIsCommitted ==
    (\A p \in Procs : pc[p] # "published")
    => \A m \in 1..Len(bus) : \A i \in 1..Len(bus[m]) : bus[m][i] \in events

\* C37: a read-model row of version n stands on the committed events 1..n:
\* they are in the event store and the balance of the row is the balance of
\* the aggregate replayed from them.
RowReflectsCommittedEvents ==
    \A y \in projection :
        /\ y.version \in 1..Cardinality(events)
        /\ ReplayTo(y.version).err = NoErr
        /\ y.balance = AsMajorUnits(ReplayTo(y.version).agg.amount,
                                    ReplayTo(y.version).agg.currency)

\* C38: an event a worker is handling is a committed row of the event store,
\* and the aggregate a rebuild has loaded while handling it, which becomes the
\* row, has at least the version of the event.
HandledEventIsVisible ==
    \A w \in Workers :
        wmsg[w] # NoMessage
        => /\ WorkerEvent(w) \in events
           /\ \A a \in wagg[w] : a.version >= WorkerEvent(w).version

\* the collection after the consumer has applied the events one by one, from
\* no row, as projection.When does; the first error ends it
RECURSIVE AppliedOneByOne(_, _)
AppliedOneByOne(coll, rowSeq) ==
    IF rowSeq = <<>> THEN [err |-> NoErr, coll |-> coll]
    ELSE LET e == Head(rowSeq)
             f == FindExpectedVersion(coll, e.version - 1)
             r == IF e.type = BankAccountCreatedEventTypeV1
                  THEN onBankAccountCreated(coll, e)
                  ELSE IF f.err # NoErr THEN [err |-> f.err, coll |-> coll]
                  ELSE FindOneAndUpdate(
                         coll, UpdateProjectionCallback(CHOOSE x \in f.found : TRUE, e),
                         FALSE)
         IN IF r.err # NoErr THEN r ELSE AppliedOneByOne(r.coll, Tail(rowSeq))

\* the row a rebuild inserts, and the row the query side upserts on a miss,
\* from the committed events
RebuiltRow ==
    Insert({}, BankAccountToMongoProjection(
                 Load(events, snapshots, NewBankAccountAggregate).agg)).coll

UpsertedRow ==
    Upsert({}, BankAccountToMongoProjection(
                 Load(events, snapshots, NewBankAccountAggregate).agg)).coll

\* C39: when the consumer can apply the committed events one by one, the row
\* it ends with is the row a rebuild inserts and the row a query upserts on a
\* miss: same version, balance, currency, e-mail, names and password hash.
RebuildEqualsIncremental ==
    LET applied == AppliedOneByOne({}, OrderByVersion(events)) IN
    (events # {} /\ applied.err = NoErr)
    => /\ RebuiltRow = applied.coll
       /\ UpsertedRow = applied.coll

====
